---- MODULE Spec2Model ----
(***************************************************************************)
(* peachy: a task supervisor (Manager, src/src/manager.rs) and a message   *)
(* mediator (Mediator / Connector, src/src/mediator/routine.rs).           *)
(*                                                                         *)
(* Five specifications share the variables and the actions:                *)
(*   SpecMgr   the Manager with plain routines (no Connector);             *)
(*   Spec      the Mediator under the Manager with free clients;           *)
(*   SpecTry   Spec with a routine that also polls with try_recv;          *)
(*   SpecPeers three routines that send, then receive until end-of-stream; *)
(*   SpecTest  the test tests::test_mediator, with fair scheduling.        *)
(***************************************************************************)
EXTENDS Integers, Sequences, FiniteSets, TLC

\* ------------------------------------------------------------------ bounds
MaxRoutines == 3        \* plain routines added to a Manager (SpecMgr)
MaxSteps == 1           \* observable side effects of one plain routine
MaxSends == 2           \* sends accepted from one free client
Capacity == 1           \* slots of one mpsc channel (32 in the code, scaled)

\* ------------------------------------------------- constants of the program
TestSends == 4          \* ARoutine sends Validate(1) .. Validate(4)
TestCapacity == 4       \* the test's side channel

Ids == {"A", "B"}       \* identities (E)
NoId == "-"

VARIABLES
    \* Manager
    idle_routines,      \* Manager.idle_routines: ids of the routines added
    running_routines,   \* Manager.running_routines: JoinHandles not yet joined
    mgr_pc,             \* "build" | "launch" | "join" | "done"
    mgr_result,         \* what Manager::run returned
    joined,             \* the handles join_routines has awaited, in order
    \* routines / tokio tasks, indexed by registration position
    routines,           \* [kind, con] of each routine added
    task,               \* "idle" | "running" | "Ok" | "Err" | "Panicked" | "Cancelled"
    task_err,           \* the failure a task ended with
    effects,            \* side effects of a plain routine
    \* Mediator
    senders,            \* Mediator.senders: the SendTunnel registry
    receivers,          \* Mediator.receivers: RecvTunnels not yet handed out
    handlers,           \* JoinHandles of the forwarders still to be joined
    med_pc,             \* "new" | "run" (future created) | "done" (dropped)
    lock,               \* holder of the registry Mutex: 0 or a forwarder
    fwd_pc,             \* forwarder: "none" | "recv" | "lock" | "send" | "done"
    fwd_source,         \* RecvTunnel.source of a forwarder's tunnel
    fwd_msg,            \* the MessagePoint a forwarder holds
    fwd_result,         \* what handle_messages returned
    \* channels, indexed by connect call
    connectors,         \* [source, state] of each Connector
    to_med,             \* connector_to_mediator queues
    from_med,           \* mediator_to_connector queues
    \* what the clients observed
    sent,               \* per Connector: the [dest, message] send accepted
    recvd,              \* per Connector: the Messages recv / try_recv returned
    conn_last,          \* per Connector: the result of its last call
    test_rx             \* the test's side channel

mgr_vars == <<idle_routines, running_routines, mgr_pc, mgr_result, joined>>
task_vars == <<routines, task, task_err, effects>>
med_vars == <<senders, receivers, handlers, med_pc, lock, fwd_pc, fwd_source, fwd_msg, fwd_result>>
chan_vars == <<connectors, to_med, from_med>>
client_vars == <<sent, recvd, conn_last, test_rx>>
vars == <<mgr_vars, task_vars, med_vars, chan_vars, client_vars>>

\* ----------------------------------------------------------------- helpers
Range(s) == {s[i] : i \in DOMAIN s}

Reverse(s) == [i \in 1..Len(s) |-> s[Len(s) + 1 - i]]

IsPrefix(s, t) == Len(s) <= Len(t) /\ \A i \in 1..Len(s) : s[i] = t[i]

\* MediatorError (src/src/mediator/error.rs), one record shape for all variants
NoError == [type |-> "None", from |-> NoId, to |-> NoId, target |-> NoId]
ChannelClosed(f, t) == [type |-> "ChannelClosed", from |-> f, to |-> t, target |-> NoId]
TargetUnreachable(t) == [type |-> "TargetUnreachable", from |-> NoId, to |-> NoId, target |-> t]
\* ManagerError (src/src/manager.rs, lines 90-100): the variants a routine of
\* the trait `fn run(self) -> ManagerResult` can return as its own failure;
\* RuntimeError has #[from] JoinError, so `?` on a JoinHandle builds it
ManagerErrors == {"Generic", "RuntimeError", "RoutineError"}
\* the failure a plain routine reports: a ManagerError of variant v
RoutineFailure(v) == [type |-> v, from |-> NoId, to |-> NoId, target |-> NoId]

Completed == {"Ok", "Err", "Panicked", "Cancelled"}

\* ManagerResult: Ok(()), or the failure of the task `routine`
MgrNone == [type |-> "None", routine |-> 0, err |-> NoError]
MgrOk == [type |-> "Ok", routine |-> 0, err |-> NoError]
RuntimeError(r) == [type |-> "RuntimeError", routine |-> r, err |-> NoError]
\* a routine's own failure e, which `?` passes on as it is
RoutineErr(r, e) == [type |-> "Err", routine |-> r, err |-> e]
\* the ManagerError variant the caller of Manager::run sees in the result res
ReportedAs(res) == IF res.type = "Err" THEN res.err.type ELSE res.type

\* Message and MessagePoint (src/src/mediator/routine.rs, lines 251-267)
Message(source, message) == [source |-> source, message |-> message]
MessagePoint(destination, payload) == [destination |-> destination, payload |-> payload]
NoMsg == MessagePoint(NoId, Message(NoId, 0))

\* results of Connector calls that are no MediatorError
Outcome(t) == [type |-> t, from |-> NoId, to |-> NoId, target |-> NoId]

Init ==
    /\ idle_routines = <<>>
    /\ running_routines = <<>>
    /\ mgr_pc = "build"
    /\ mgr_result = MgrNone
    /\ joined = <<>>
    /\ routines = <<>>
    /\ task = <<>>
    /\ task_err = <<>>
    /\ effects = <<>>
    /\ senders = <<>>
    /\ receivers = <<>>
    /\ handlers = <<>>
    /\ med_pc = "new"
    /\ lock = 0
    /\ fwd_pc = <<>>
    /\ fwd_source = <<>>
    /\ fwd_msg = <<>>
    /\ fwd_result = <<>>
    /\ connectors = <<>>
    /\ to_med = <<>>
    /\ from_med = <<>>
    /\ sent = <<>>
    /\ recvd = <<>>
    /\ conn_last = <<>>
    /\ test_rx = <<>>

\* ================================================================ Manager

\* Manager::add_routine: the routine is recorded as idle, nothing runs.
add_routine_eager(kind, con) ==
    /\ mgr_pc = "build"
    /\ idle_routines' = Append(idle_routines, Len(routines) + 1)
    /\ routines' = Append(routines, [kind |-> kind, con |-> con])
    /\ task' = Append(task, "running")
    /\ task_err' = Append(task_err, NoError)
    /\ effects' = Append(effects, 0)
    /\ med_pc' = IF kind = "Mediator" THEN "run" ELSE med_pc
    /\ UNCHANGED <<running_routines, mgr_pc, mgr_result, joined>>
    /\ UNCHANGED <<senders, receivers, handlers, lock, fwd_pc, fwd_source, fwd_msg, fwd_result>>
    /\ UNCHANGED <<chan_vars, client_vars>>
add_routine(kind, con) ==
    /\ mgr_pc = "build"
    /\ idle_routines' = Append(idle_routines, Len(routines) + 1)
    /\ routines' = Append(routines, [kind |-> kind, con |-> con])
    /\ task' = Append(task, "idle")
    /\ task_err' = Append(task_err, NoError)
    /\ effects' = Append(effects, 0)
    /\ med_pc' = IF kind = "Mediator" THEN "run" ELSE med_pc
    /\ UNCHANGED <<running_routines, mgr_pc, mgr_result, joined>>
    /\ UNCHANGED <<senders, receivers, handlers, lock, fwd_pc, fwd_source, fwd_msg, fwd_result>>
    /\ UNCHANGED <<chan_vars, client_vars>>

\* run_routines, line 55: the order in which the idle routines are launched
LaunchOrder(idle) == Reverse(idle)

\* Manager::run is called: run_routines starts with idle_routines.reverse()
run ==
    /\ mgr_pc = "build"
    /\ idle_routines' = LaunchOrder(idle_routines)
    /\ mgr_pc' = IF idle_routines = <<>> THEN "join" ELSE "launch"
    /\ UNCHANGED <<running_routines, mgr_result, joined>>
    /\ UNCHANGED <<task_vars, med_vars, chan_vars, client_vars>>

\* run_routines, one iteration of the drain loop: tokio::spawn of the next routine
run_routines ==
    /\ mgr_pc = "launch"
    /\ idle_routines # <<>>
    /\ LET r == Head(idle_routines) IN
        /\ task' = [task EXCEPT ![r] = "running"]
        /\ running_routines' = Append(running_routines, r)
    /\ idle_routines' = Tail(idle_routines)
    /\ mgr_pc' = IF Tail(idle_routines) = <<>> THEN "join" ELSE "launch"
    /\ UNCHANGED <<mgr_result, joined, routines, task_err, effects>>
    /\ UNCHANGED <<med_vars, chan_vars, client_vars>>

\* What the join of task w yields when it is not Ok(Ok(())): `??` on line 66
JoinOutcome(w) ==
    IF task[w] = "Err" THEN RoutineErr(w, task_err[w]) ELSE RuntimeError(w)

\* Dropping the JoinHandles `hs` (the Drain is dropped on the early return):
\* a dropped tokio JoinHandle detaches its task, the task keeps running.
AbortHandles(t, hs) ==
    [r \in DOMAIN t |-> IF r \in Range(hs) /\ t[r] = "running" THEN "Cancelled" ELSE t[r]]
DropHandles(t, hs) == t

\* join_routines returns Ok(()) when the drain loop has no handle left
JoinFinishedEarly(running) == Len(running) <= 1
JoinFinished(running) == running = <<>>

\* join_routines, one iteration: worker.await, then `??`
join_routines ==
    /\ mgr_pc = "join"
    /\ IF JoinFinished(running_routines)
       THEN /\ mgr_pc' = "done"
            /\ mgr_result' = MgrOk
            /\ running_routines' = <<>>
            /\ UNCHANGED <<joined, task>>
       ELSE LET w == Head(running_routines) IN
            /\ task[w] \in Completed
            /\ joined' = Append(joined, w)
            /\ IF task[w] = "Ok"
               THEN /\ running_routines' = Tail(running_routines)
                    /\ UNCHANGED <<mgr_pc, mgr_result, task>>
               ELSE /\ mgr_pc' = "done"
                    /\ mgr_result' = JoinOutcome(w)
                    /\ running_routines' = <<>>
                    /\ task' = DropHandles(task, Tail(running_routines))
    /\ UNCHANGED <<idle_routines, routines, task_err, effects>>
    /\ UNCHANGED <<med_vars, chan_vars, client_vars>>

\* ---------------------------------------------------------- plain routines
\* A routine without Connector: it performs side effects and ends, on its own
\* schedule, with Ok, with a failure of its own, or with a panic.
RoutineStep(r) ==
    /\ routines[r].kind = "Plain"
    /\ task[r] = "running"
    /\ effects[r] < MaxSteps
    /\ effects' = [effects EXCEPT ![r] = @ + 1]
    /\ UNCHANGED <<mgr_vars, routines, task, task_err>>
    /\ UNCHANGED <<med_vars, chan_vars, client_vars>>

RoutineReturn(r, out, err) ==
    /\ routines[r].kind = "Plain"
    /\ task[r] = "running"
    /\ task' = [task EXCEPT ![r] = out]
    /\ task_err' = [task_err EXCEPT ![r] = err]
    /\ UNCHANGED <<mgr_vars, routines, effects>>
    /\ UNCHANGED <<med_vars, chan_vars, client_vars>>

\* what a routine's future can yield together with the outcome `out`
Failures(out) ==
    IF out = "Err" THEN {RoutineFailure(v) : v \in ManagerErrors} ELSE {NoError}

AddPlain == Len(routines) < MaxRoutines /\ add_routine("Plain", 0)

NextMgr ==
    \/ AddPlain
    \/ run
    \/ run_routines
    \/ join_routines
    \/ \E r \in DOMAIN routines : RoutineStep(r)
    \/ \E r \in DOMAIN routines : \E out \in {"Ok", "Err", "Panicked"} :
           \E err \in Failures(out) : RoutineReturn(r, out, err)

SpecMgr == Init /\ [][NextMgr]_vars
\* =============================================================== Mediator

\* connect, lines 170-173: the SendTunnel pushed on the registry
SendTunnelUntagged(source, c) == [destination |-> NoId, tx |-> c]
SendTunnel(source, c) == [destination |-> source, tx |-> c]

\* connect, lines 177-180: the RecvTunnel pushed on Mediator.receivers
RecvTunnel(source, c) == [source |-> source, rx |-> c]

\* Mediator::connect: two channels, one SendTunnel, one RecvTunnel, one
\* Connector; the channel ends are named by the index of the connect call.
connect(source) ==
    /\ mgr_pc = "build"
    /\ med_pc = "new"
    /\ lock = 0
    /\ LET c == Len(connectors) + 1 IN
        /\ senders' = Append(senders, SendTunnel(source, c))
        /\ receivers' = Append(receivers, RecvTunnel(source, c))
        /\ connectors' = Append(connectors, [source |-> source, state |-> "live"])
    /\ to_med' = Append(to_med, <<>>)
    /\ from_med' = Append(from_med, <<>>)
    /\ fwd_pc' = Append(fwd_pc, "none")
    /\ fwd_source' = Append(fwd_source, NoId)
    /\ fwd_msg' = Append(fwd_msg, NoMsg)
    /\ fwd_result' = Append(fwd_result, NoError)
    /\ sent' = Append(sent, <<>>)
    /\ recvd' = Append(recvd, <<>>)
    /\ conn_last' = Append(conn_last, Outcome("None"))
    /\ UNCHANGED <<mgr_vars, task_vars, handlers, med_pc, lock, test_rx>>

\* The routine that holds the Mediator, 0 while it was not added
MedRoutine ==
    IF \E r \in DOMAIN routines : routines[r].kind = "Mediator"
    THEN CHOOSE r \in DOMAIN routines : routines[r].kind = "Mediator"
    ELSE 0

\* The RecvTunnel of channel c exists: held by the Mediator or by its forwarder
RecvTunnelAliveOnceSpawned(c) == fwd_pc[c] \in {"recv", "lock", "send"}
RecvTunnelAlive(c) == fwd_pc[c] # "done"

\* The SendTunnel registry exists: the Arc is held by the Mediator and by
\* every forwarder that has not returned
SendersAlive ==
    \/ med_pc # "done"
    \/ \E f \in DOMAIN fwd_pc : fwd_pc[f] \in {"recv", "lock", "send"}

\* Mediator::run, one iteration of the spawn loop (lines 103-106)
mediator_spawn ==
    /\ med_pc = "run"
    /\ MedRoutine # 0 /\ task[MedRoutine] = "running"
    /\ receivers # <<>>
    /\ LET receiver == Head(receivers) IN
        /\ fwd_pc' = [fwd_pc EXCEPT ![receiver.rx] = "recv"]
        /\ fwd_source' = [fwd_source EXCEPT ![receiver.rx] = receiver.source]
        /\ handlers' = Append(handlers, receiver.rx)
    /\ receivers' = Tail(receivers)
    /\ UNCHANGED <<mgr_vars, task_vars, senders, med_pc, lock, fwd_msg, fwd_result>>
    /\ UNCHANGED <<chan_vars, client_vars>>

\* Mediator::run, line 108: `for handle in handlers` awaits the handles in
\* the order they were pushed, which is the order of the connect calls
NextHandleFinished(hs) ==
    IF \E i \in DOMAIN hs : fwd_pc[hs[i]] = "done"
    THEN hs[CHOOSE i \in DOMAIN hs : fwd_pc[hs[i]] = "done"]
    ELSE Head(hs)
NextHandle(hs) == Head(hs)

\* Mediator::run, one iteration of the join loop (lines 108-115)
mediator_join ==
    /\ med_pc = "run"
    /\ MedRoutine # 0 /\ task[MedRoutine] = "running"
    /\ receivers = <<>>
    /\ IF handlers = <<>>
       THEN /\ task' = [task EXCEPT ![MedRoutine] = "Ok"]
            /\ med_pc' = "done"
            /\ UNCHANGED <<task_err, handlers>>
       ELSE LET handle == NextHandle(handlers) IN
            /\ fwd_pc[handle] = "done"
            /\ IF fwd_result[handle].type = "None"
               THEN /\ handlers' = Tail(handlers)
                    /\ UNCHANGED <<task, task_err, med_pc>>
               ELSE /\ task' = [task EXCEPT ![MedRoutine] = "Err"]
                    /\ task_err' = [task_err EXCEPT ![MedRoutine] = fwd_result[handle]]
                    /\ med_pc' = "done"
                    /\ handlers' = <<>>
    /\ UNCHANGED <<mgr_vars, routines, effects>>
    /\ UNCHANGED <<senders, receivers, lock, fwd_pc, fwd_source, fwd_msg, fwd_result>>
    /\ UNCHANGED <<chan_vars, client_vars>>

\* redirect, lines 135-137: the first SendTunnel tagged `to`, 0 when none is
FindLast(to) ==
    LET hits == {i \in DOMAIN senders : senders[i].destination = to}
    IN  IF hits = {} THEN 0 ELSE CHOOSE i \in hits : \A j \in hits : i >= j
Find(to) ==
    LET hits == {i \in DOMAIN senders : senders[i].destination = to}
    IN  IF hits = {} THEN 0 ELSE CHOOSE i \in hits : \A j \in hits : i <= j

\* redirect, lines 143-146: the MessagePoint enqueued for the destination
RedirectedSwapped(source, to, msg_point) ==
    MessagePoint(source, Message(to, msg_point.payload.message))
Redirected(source, to, msg_point) ==
    MessagePoint(to, Message(source, msg_point.payload.message))

\* tokio mpsc: a message sent is queued behind those already queued
Enqueue(queue, m) == Append(queue, m)

\* redirect, line 137: the failure when no SendTunnel is tagged `to`
LookupFailureClosed(source, to) == ChannelClosed(source, to)
LookupFailure(source, to) == TargetUnreachable(to)

\* redirect, line 148: the failure when the destination's Receiver is dropped
SendFailureUnreachable(source, to) == TargetUnreachable(to)
SendFailure(source, to) == ChannelClosed(source, to)

\* handle_messages, line 156: receiver.rx.recv().await yields None when the
\* queue is empty and the only Sender, the Connector's tx, is dropped
RecvNoneOnDrop(f) == connectors[f].state = "dropped"
RecvNone(f) == to_med[f] = <<>> /\ connectors[f].state = "dropped"

\* handle_messages, line 162: what the forwarder returns after the loop
ClosureResultOk(source) == NoError
ClosureResult(source) == TargetUnreachable(source)

\* handle_messages, lines 156-162: the next message, or the end on closure
handle_messages(f) ==
    /\ fwd_pc[f] = "recv"
    /\ IF ~RecvNone(f)
       THEN /\ to_med[f] # <<>>
            /\ fwd_msg' = [fwd_msg EXCEPT ![f] = Head(to_med[f])]
            /\ to_med' = [to_med EXCEPT ![f] = Tail(@)]
            /\ fwd_pc' = [fwd_pc EXCEPT ![f] = "lock"]
            /\ UNCHANGED fwd_result
       ELSE /\ fwd_pc' = [fwd_pc EXCEPT ![f] = "done"]
            /\ fwd_result' = [fwd_result EXCEPT ![f] = ClosureResult(fwd_source[f])]
            /\ UNCHANGED <<fwd_msg, to_med>>
    /\ UNCHANGED <<mgr_vars, task_vars, senders, receivers, handlers, med_pc, lock, fwd_source>>
    /\ UNCHANGED <<connectors, from_med, client_vars>>

\* redirect, line 132: senders.lock().await completes when no task holds the
\* registry Mutex
MutexIgnored(holder) == TRUE
MutexFree(holder) == holder = 0

\* redirect, lines 132-137: the lock is taken and the registry is scanned; a
\* failure returns through handle_messages, which drops its RecvTunnel.
redirect_lock(f) ==
    /\ fwd_pc[f] = "lock"
    /\ MutexFree(lock)
    /\ LET to == fwd_msg[f].destination IN
       IF Find(to) = 0
       THEN /\ fwd_pc' = [fwd_pc EXCEPT ![f] = "done"]
            /\ fwd_result' = [fwd_result EXCEPT ![f] = LookupFailure(fwd_source[f], to)]
            /\ to_med' = [to_med EXCEPT ![f] = <<>>]
            /\ UNCHANGED lock
       ELSE /\ fwd_pc' = [fwd_pc EXCEPT ![f] = "send"]
            /\ lock' = f
            /\ UNCHANGED <<fwd_result, to_med>>
    /\ UNCHANGED <<mgr_vars, task_vars, senders, receivers, handlers, med_pc, fwd_source, fwd_msg>>
    /\ UNCHANGED <<connectors, from_med, client_vars>>

\* redirect, lines 141-152: tunnel.tx.send(..).await under the lock, which is
\* released when redirect returns.
redirect_send(f) ==
    /\ fwd_pc[f] = "send"
    /\ lock = f
    /\ LET to == fwd_msg[f].destination
           tunnel == senders[Find(to)]
       IN  IF connectors[tunnel.tx].state = "dropped"
           THEN /\ fwd_pc' = [fwd_pc EXCEPT ![f] = "done"]
                /\ fwd_result' = [fwd_result EXCEPT ![f] = SendFailure(fwd_source[f], to)]
                /\ to_med' = [to_med EXCEPT ![f] = <<>>]
                /\ UNCHANGED <<from_med, fwd_msg>>
           ELSE /\ Len(from_med[tunnel.tx]) < Capacity
                /\ from_med' = [from_med EXCEPT ![tunnel.tx] =
                                   Enqueue(@, Redirected(fwd_source[f], to, fwd_msg[f]))]
                /\ fwd_pc' = [fwd_pc EXCEPT ![f] = "recv"]
                /\ fwd_msg' = [fwd_msg EXCEPT ![f] = NoMsg]
                /\ UNCHANGED <<fwd_result, to_med>>
    /\ lock' = 0
    /\ UNCHANGED <<mgr_vars, task_vars, senders, receivers, handlers, med_pc, fwd_source>>
    /\ UNCHANGED <<connectors, client_vars>>

\* ============================================================== Connector

\* Connector::send, lines 219-225: the MessagePoint Connector c builds
EnvelopeSwapped(c, dest, msg) == MessagePoint(connectors[c].source, Message(dest, msg))
Envelope(c, dest, msg) == MessagePoint(dest, Message(connectors[c].source, msg))

\* Connector::send, lines 217-233: self.tx.send(..).await waits for a free
\* slot and fails only when the Receiver (the RecvTunnel's rx) is dropped
send_nowait(c, dest, msg) ==
    IF ~RecvTunnelAlive(c) \/ Len(to_med[c]) >= Capacity
    THEN /\ conn_last' = [conn_last EXCEPT ![c] = ChannelClosed(connectors[c].source, dest)]
         /\ UNCHANGED <<to_med, sent>>
    ELSE /\ to_med' = [to_med EXCEPT ![c] =
                Enqueue(@, Envelope(c, dest, msg))]
         /\ sent' = [sent EXCEPT ![c] = Append(@, [dest |-> dest, message |-> msg])]
         /\ conn_last' = [conn_last EXCEPT ![c] = Outcome("Ok")]
send(c, dest, msg) ==
    IF ~RecvTunnelAlive(c)
    THEN /\ conn_last' = [conn_last EXCEPT ![c] = ChannelClosed(connectors[c].source, dest)]
         /\ UNCHANGED <<to_med, sent>>
    ELSE /\ Len(to_med[c]) < Capacity
         /\ to_med' = [to_med EXCEPT ![c] =
                Enqueue(@, Envelope(c, dest, msg))]
         /\ sent' = [sent EXCEPT ![c] = Append(@, [dest |-> dest, message |-> msg])]
         /\ conn_last' = [conn_last EXCEPT ![c] = Outcome("Ok")]

\* Connector::recv, lines 236-238
recv(c) ==
    IF from_med[c] # <<>>
    THEN /\ recvd' = [recvd EXCEPT ![c] = Append(@, Head(from_med[c]).payload)]
         /\ from_med' = [from_med EXCEPT ![c] = Tail(@)]
         /\ conn_last' = [conn_last EXCEPT ![c] = Outcome("Ok")]
    ELSE /\ ~SendersAlive
         /\ conn_last' = [conn_last EXCEPT ![c] = Outcome("EndOfStream")]
         /\ UNCHANGED <<recvd, from_med>>

\* Connector::try_recv, lines 241-248: self.rx.try_recv(), which tells Empty
\* from Disconnected
try_recv_empty(c) ==
    IF from_med[c] # <<>>
    THEN /\ recvd' = [recvd EXCEPT ![c] = Append(@, Head(from_med[c]).payload)]
         /\ from_med' = [from_med EXCEPT ![c] = Tail(@)]
         /\ conn_last' = [conn_last EXCEPT ![c] = Outcome("Ok")]
    ELSE /\ conn_last' = [conn_last EXCEPT ![c] = Outcome("Empty")]
         /\ UNCHANGED <<recvd, from_med>>
try_recv(c) ==
    IF from_med[c] # <<>>
    THEN /\ recvd' = [recvd EXCEPT ![c] = Append(@, Head(from_med[c]).payload)]
         /\ from_med' = [from_med EXCEPT ![c] = Tail(@)]
         /\ conn_last' = [conn_last EXCEPT ![c] = Outcome("Ok")]
    ELSE /\ conn_last' = [conn_last EXCEPT ![c] =
                IF SendersAlive THEN Outcome("Empty") ELSE Outcome("Disconnected")]
         /\ UNCHANGED <<recvd, from_med>>

\* A routine ends: its task completes and its Connector is dropped, which
\* closes both channels (the messages queued for it are destroyed).
finish(r, out, err) ==
    /\ task' = [task EXCEPT ![r] = out]
    /\ task_err' = [task_err EXCEPT ![r] = err]
    /\ connectors' = [connectors EXCEPT ![routines[r].con].state = "dropped"]
    /\ from_med' = [from_med EXCEPT ![routines[r].con] = <<>>]

Runs(r, kind) == routines[r].kind = kind /\ task[r] = "running"

\* ---------------------------------------------------------- free clients
\* A routine that holds a Connector and calls it in any way.
ClientSend(r, dest) ==
    /\ Runs(r, "Client")
    /\ Len(sent[routines[r].con]) < MaxSends
    /\ send(routines[r].con, dest, Len(sent[routines[r].con]) + 1)
    /\ UNCHANGED <<mgr_vars, task_vars, med_vars, connectors, from_med, recvd, test_rx>>

ClientRecv(r) ==
    /\ Runs(r, "Client")
    /\ recv(routines[r].con)
    /\ UNCHANGED <<mgr_vars, task_vars, med_vars, connectors, to_med, sent, test_rx>>

ClientTryRecv(r) ==
    /\ Runs(r, "Client")
    /\ try_recv(routines[r].con)
    /\ UNCHANGED <<mgr_vars, task_vars, med_vars, connectors, to_med, sent, test_rx>>

\* The routine returns Ok, or passes on the failure of its last send (`?`),
\* or panics on it (unwrap).
ClientFinish(r, out) ==
    /\ Runs(r, "Client")
    /\ out # "Ok" => conn_last[routines[r].con].type = "ChannelClosed"
    /\ finish(r, out, IF out = "Err" THEN conn_last[routines[r].con] ELSE NoError)
    /\ UNCHANGED <<mgr_vars, routines, effects, med_vars, to_med, client_vars>>

\* ----------------------------------------------- the routines of the test
\* tests::ARoutine::run, lines 325-347: four sends, each unwrapped
ARoutine(r) ==
    /\ Runs(r, "ARoutine")
    /\ LET c == routines[r].con IN
       IF Len(sent[c]) < TestSends
       THEN /\ send(c, "B", Len(sent[c]) + 1)
            /\ IF conn_last'[c].type = "ChannelClosed"
               THEN finish(r, "Panicked", NoError)
               ELSE UNCHANGED <<task, task_err, connectors, from_med>>
       ELSE /\ finish(r, "Ok", NoError)
            /\ UNCHANGED <<to_med, sent, conn_last>>
    /\ UNCHANGED <<mgr_vars, routines, effects, med_vars, recvd, test_rx>>

\* tests::BRoutine::run, lines 358-366: recv until end-of-stream, every
\* payload is passed on to the side channel
BRoutine(r) ==
    /\ Runs(r, "BRoutine")
    /\ LET c == routines[r].con IN
        /\ Len(test_rx) < TestCapacity
        /\ recv(c)
        /\ IF conn_last'[c].type = "EndOfStream"
           THEN /\ finish(r, "Ok", NoError)
                /\ UNCHANGED test_rx
           ELSE /\ test_rx' = Append(test_rx, Head(from_med[c]).payload.message)
                /\ UNCHANGED <<task, task_err, connectors>>
    /\ UNCHANGED <<mgr_vars, routines, effects, med_vars, to_med, sent>>

\* ------------------------------------------------------------------ peers
\* A routine of the shape of the doc example's routines taken together: it
\* sends a fixed number of messages to one other identity of its choice, each
\* send passed on with `?`, then receives until end-of-stream and returns.
PeerIds == <<"A", "B", "C">>

\* the destinations Connector c may send to next
PeerDests(c) ==
    IF sent[c] = <<>>
    THEN Range(PeerIds) \ {connectors[c].source}
    ELSE {sent[c][1].dest}

\* the sends of one peer: one more than its channel and its forwarder hold
PeerSends == Capacity + 2

Peer(r) ==
    /\ Runs(r, "Peer")
    /\ LET c == routines[r].con IN
       IF Len(sent[c]) < PeerSends
       THEN /\ \E dest \in PeerDests(c) : send(c, dest, Len(sent[c]) + 1)
            /\ IF conn_last'[c].type = "ChannelClosed"
               THEN finish(r, "Err", conn_last'[c])
               ELSE UNCHANGED <<task, task_err, connectors, from_med>>
            /\ UNCHANGED recvd
       ELSE /\ recv(c)
            /\ IF conn_last'[c].type = "EndOfStream"
               THEN finish(r, "Ok", NoError)
               ELSE UNCHANGED <<task, task_err, connectors>>
            /\ UNCHANGED <<to_med, sent>>
    /\ UNCHANGED <<mgr_vars, routines, effects, med_vars, test_rx>>

\* ========================================================= specifications
\* The identities main connects, in this order; an identity may be connected
\* again in place of a later one (duplicate connect), which leaves the later
\* one unregistered.
Participants == <<"A", "B">>

Connect ==
    /\ Len(connectors) < Len(Participants)
    /\ \E k \in 1..(Len(connectors) + 1) : connect(Participants[k])

\* Registration as the doc example has it (lines 27-31): the routines in the
\* order of their connect calls, then the Mediator, then run.
AddClient ==
    /\ Len(routines) < Len(connectors)
    /\ add_routine("Client", Len(routines) + 1)

AddMediator ==
    /\ med_pc = "new"
    /\ Len(routines) = Len(connectors)
    /\ add_routine("Mediator", 0)

Run == med_pc = "run" /\ run

Forwarder(f) == handle_messages(f) \/ redirect_lock(f) \/ redirect_send(f)

Next ==
    \/ Connect
    \/ AddClient
    \/ AddMediator
    \/ Run
    \/ run_routines
    \/ join_routines
    \/ mediator_spawn
    \/ mediator_join
    \/ \E f \in DOMAIN fwd_pc : Forwarder(f)
    \/ \E r \in DOMAIN routines : \E dest \in Ids : ClientSend(r, dest)
    \/ \E r \in DOMAIN routines : ClientRecv(r)
    \/ \E r \in DOMAIN routines : \E out \in {"Ok", "Err", "Panicked"} : ClientFinish(r, out)

Spec == Init /\ [][Next]_vars

\* The same where the routine registered first also polls with try_recv
\* (the others only block in recv)
Pollers == {1}

NextTry ==
    \/ Next
    \/ \E r \in DOMAIN routines \cap Pollers : ClientTryRecv(r)

SpecTry == Init /\ [][NextTry]_vars

\* tests::test_mediator, lines 370-390: connect(A), connect(B), then
\* add_routine(a_routine), add_routine(b_routine), add_routine(mediator), run
TestIds == <<"A", "B">>
TestKinds == <<"ARoutine", "BRoutine">>

TestMain ==
    \/ /\ Len(connectors) < Len(TestIds)
       /\ connect(TestIds[Len(connectors) + 1])
    \/ /\ Len(connectors) = Len(TestIds)
       /\ Len(routines) < Len(TestKinds)
       /\ add_routine(TestKinds[Len(routines) + 1], Len(routines) + 1)
    \/ /\ Len(routines) = Len(TestKinds)
       /\ add_routine("Mediator", 0)
    \/ /\ Len(routines) = Len(TestKinds) + 1
       /\ run

TestManager == run_routines \/ join_routines

TestMediator == mediator_spawn \/ mediator_join

NextTest ==
    \/ TestMain
    \/ TestManager
    \/ TestMediator
    \/ \E f \in DOMAIN fwd_pc : Forwarder(f)
    \/ \E r \in DOMAIN routines : ARoutine(r)
    \/ \E r \in DOMAIN routines : BRoutine(r)

\* tokio polls every task that can make progress: the Manager's task, the
\* Mediator's task, each forwarder and each routine
TestFairness ==
    /\ WF_vars(TestMain)
    /\ WF_vars(TestManager)
    /\ WF_vars(TestMediator)
    /\ \A f \in DOMAIN TestIds : WF_vars(f \in DOMAIN fwd_pc /\ Forwarder(f))
    /\ \A r \in DOMAIN TestKinds : WF_vars(r \in DOMAIN routines /\ ARoutine(r))
    /\ \A r \in DOMAIN TestKinds : WF_vars(r \in DOMAIN routines /\ BRoutine(r))

SpecTest == Init /\ [][NextTest]_vars /\ TestFairness

\* Three peers: connect(A), connect(B), connect(C), one peer per Connector,
\* the Mediator, run
PeersMain ==
    \/ /\ Len(connectors) < Len(PeerIds)
       /\ connect(PeerIds[Len(connectors) + 1])
    \/ /\ Len(connectors) = Len(PeerIds)
       /\ Len(routines) < Len(PeerIds)
       /\ add_routine("Peer", Len(routines) + 1)
    \/ /\ Len(routines) = Len(PeerIds)
       /\ add_routine("Mediator", 0)
    \/ /\ Len(routines) = Len(PeerIds) + 1
       /\ run

\* With every Connector alive no forwarder ends, so the join loops of
\* Mediator::run and of Manager::run stay suspended on their first handle.
NextPeers ==
    \/ PeersMain
    \/ run_routines
    \/ mediator_spawn
    \/ \E f \in DOMAIN fwd_pc : Forwarder(f)
    \/ \E r \in DOMAIN routines : Peer(r)

SpecPeers == Init /\ [][NextPeers]_vars

\* ================================================================= claims
Failed == {"Err", "Panicked"}

\* ------------------------------------------------------------------- C4
\* C4 (as claimed): Manager.run joins in registration order: the failure it
\* returns is that of the earliest-registered failing routine (no routine
\* registered before it has failed), and no routine registered after it has
\* been awaited.
C4_RegistrationOrderJoin ==
    (mgr_pc = "done" /\ mgr_result.type \in {"Err", "RuntimeError"}) =>
        /\ \A r \in DOMAIN routines : r < mgr_result.routine => task[r] \notin Failed
        /\ \A r \in DOMAIN routines : r > mgr_result.routine => r \notin Range(joined)

\* ------------------------------------------------------------------- C5
\* C5 (as claimed): with three routines added in order 1,2,3, once routine 2
\* has failed the Manager is never suspended on the handle of routine 3 while
\* routine 3 is still executing, and a returned failure of routine 2 was
\* returned without awaiting routine 3.
C5_SecondFailsThirdNotAwaited ==
    Len(routines) = 3 =>
        /\ (task[2] \in Failed /\ task[3] = "running") =>
               ~(mgr_pc = "join" /\ running_routines # <<>> /\ Head(running_routines) = 3)
        /\ (mgr_pc = "done" /\ mgr_result.routine = 2) => 3 \notin Range(joined)

\* ------------------------------------------------------------------- C6
\* C6: Manager.run has returned Ok only in states where every registered
\* routine has completed with Ok.
C6_OkOnlyAfterAllCompleted ==
    (mgr_pc = "done" /\ mgr_result.type = "Ok") =>
        \A r \in DOMAIN routines : task[r] = "Ok"

\* run returned Ok for a batch of several routines, one of which did work
C6_Witness ==
    /\ mgr_pc = "done" /\ mgr_result.type = "Ok"
    /\ Len(routines) >= 2
    /\ \E r \in DOMAIN routines : effects[r] > 0

\* ------------------------------------------------------------------- C7
\* C7: the step in which Manager.run returns a failure changes no task (none
\* is cancelled, none is awaited to its end), no task is ever cancelled, and
\* after the return a running task can still execute.
C7_NonCancellation ==
    /\ [][(mgr_pc = "join" /\ mgr_pc' = "done" /\ mgr_result'.type # "Ok") =>
              (task' = task /\ task_err' = task_err /\ effects' = effects)]_vars
    /\ [](\A r \in DOMAIN task : task[r] # "Cancelled")
    /\ [](\A r \in DOMAIN task :
              (mgr_pc = "done" /\ task[r] = "running" /\ routines[r].kind = "Plain")
                  => ENABLED RoutineReturn(r, "Ok", NoError))

\* run has returned a failure while a task it never joined is running and
\* can still perform a side effect
C7_Witness ==
    /\ mgr_pc = "done" /\ mgr_result.type = "Err"
    /\ \E r \in DOMAIN routines :
           /\ r \notin Range(joined)
           /\ task[r] = "running"
           /\ ENABLED RoutineStep(r)
\* ------------------------------------------------------------------- C1
AllUnique ==
    \A a, b \in DOMAIN connectors :
        connectors[a].source = connectors[b].source => a = b

\* the payloads Connector b received with source s, in the order received
ReceivedFrom(b, s) ==
    LET FromS(m) == m.source = s
        got == SelectSeq(recvd[b], FromS)
    IN  [i \in 1..Len(got) |-> got[i].message]

\* the payloads the Connector of identity s passed to send(dest, ..), in order
SentTo(s, dest) ==
    IF \E a \in DOMAIN connectors : connectors[a].source = s
    THEN LET a == CHOOSE a \in DOMAIN connectors : connectors[a].source = s
             ToDest(x) == x.dest = dest
             out == SelectSeq(sent[a], ToDest)
         IN  [i \in 1..Len(out) |-> out[i].message]
    ELSE <<>>

TestDelivered ==
    /\ Len(recvd) = Len(TestIds)
    /\ recvd[2] = [i \in 1..TestSends |-> Message("A", i)]
    /\ test_rx = [i \in 1..TestSends |-> i]

\* C2: in the test, under fair scheduling, B eventually has received exactly
\* the four messages of A, the side channel holds 1..4, and it stays so.
C2_EventualDelivery == <>[]TestDelivered

C2_Witness == TestDelivered /\ sent[1] = [i \in 1..TestSends |-> [dest |-> "B", message |-> i]]

\* ------------------------------------------------------------------- C3
\* C3 (as claimed): in the test, the Consumer receives 1,2,3,4 and then
\* observes end-of-stream and terminates; so whenever no task of the test can
\* take a further step, the Consumer has received 1,2,3,4, its last recv has
\* returned None and its routine has returned Ok.
C3_ConsumerTerminates ==
    (~ENABLED NextTest) =>
        /\ TestDelivered
        /\ conn_last[2].type = "EndOfStream"
        /\ task[2] = "Ok"

\* ------------------------------------------------------------------- C8
\* C8 (as claimed): in the test's usage, whenever Manager.run has returned,
\* it has returned Ok.
C8_NormalUseSucceeds ==
    mgr_pc = "done" => mgr_result.type = "Ok"

\* ------------------------------------------------------------------- C9
Registered(to) == Find(to) # 0

\* C9: a forwarder that holds a message for an identity with no SendTunnel
\* ends, in its redirect step, with TargetUnreachable{target: that identity}
\* and enqueues nothing; no message for an identity without SendTunnel is
\* ever queued for or received by a Connector.
C9_UnregisteredDestination ==
    /\ [][\A f \in DOMAIN fwd_pc :
              (/\ fwd_pc[f] = "lock"
               /\ ~Registered(fwd_msg[f].destination)
               /\ fwd_pc'[f] # "lock")
              => (/\ fwd_pc'[f] = "done"
                  /\ fwd_result'[f] = TargetUnreachable(fwd_msg[f].destination)
                  /\ from_med' = from_med)]_vars
    /\ [](\A c \in DOMAIN from_med : \A i \in DOMAIN from_med[c] :
              Registered(from_med[c][i].destination))

\* a forwarder has ended with TargetUnreachable for an identity that is not
\* its own and has no SendTunnel, and nothing was delivered
C9_Witness ==
    \E f \in DOMAIN fwd_pc :
        /\ fwd_result[f].type = "TargetUnreachable"
        /\ fwd_result[f].target # fwd_source[f]
        /\ ~Registered(fwd_result[f].target)
        /\ \A c \in DOMAIN recvd : recvd[c] = <<>> /\ from_med[c] = <<>>

\* ------------------------------------------------------------------ C10
\* the first SendTunnel tagged with the destination of f's message exists and
\* the Connector at its other end was dropped
DestinationDropped(f) ==
    /\ Registered(fwd_msg[f].destination)
    /\ connectors[senders[Find(fwd_msg[f].destination)].tx].state = "dropped"

\* C10: when the destination's Connector was dropped, the delivery attempt of
\* a forwarder ends with ChannelClosed{from: its source, to: the destination},
\* never with TargetUnreachable, and enqueues nothing; the attempt is not
\* suspended.
C10_DroppedDestination ==
    /\ [][\A f \in DOMAIN fwd_pc :
              (/\ fwd_pc[f] \in {"lock", "send"}
               /\ DestinationDropped(f)
               /\ fwd_pc'[f] \notin {"lock", "send"})
              => (/\ fwd_pc'[f] = "done"
                  /\ fwd_result'[f] =
                         ChannelClosed(fwd_source[f], fwd_msg[f].destination)
                  /\ from_med' = from_med)]_vars
    /\ [](\A f \in DOMAIN fwd_pc :
              (fwd_pc[f] = "send" /\ DestinationDropped(f)) => ENABLED redirect_send(f))

\* the forwarder of A has ended with ChannelClosed{A, B} after B's Connector
\* was dropped
C10_Witness ==
    \E f \in DOMAIN fwd_pc :
        /\ fwd_result[f].type = "ChannelClosed"
        /\ fwd_result[f].from = fwd_source[f]
        /\ fwd_result[f].to # fwd_source[f]
        /\ Registered(fwd_result[f].to)
        /\ connectors[senders[Find(fwd_result[f].to)].tx].state = "dropped"

\* ------------------------------------------------------------------ C11
\* C11 (as claimed): when Manager.run has returned the failure of task w, the
\* result is ManagerError::RuntimeError exactly when w terminated abnormally
\* (the join failed), and ManagerError::RoutineError exactly when w completed
\* normally with a failure of its routine.
C11_TwoTierTaxonomy ==
    (mgr_pc = "done" /\ mgr_result.type # "Ok") =>
        LET w == mgr_result.routine IN
        /\ ReportedAs(mgr_result) = "RuntimeError" <=> task[w] = "Panicked"
        /\ ReportedAs(mgr_result) = "RoutineError" <=> task[w] = "Err"

\* ------------------------------------------------------------------ C12
Last(s) == s[Len(s)]

\* C12: a send that is accepted happens while the RecvTunnel of the Connector
\* exists and the channel has a free slot, and it enqueues exactly the
\* MessagePoint{dest, Message{own identity, msg}} and returns Ok; a send
\* fails only when the RecvTunnel is dropped, with ChannelClosed{from: own
\* identity, to: dest}, and enqueues nothing; while the channel is full and
\* the RecvTunnel exists no send returns (it is suspended), and once the
\* RecvTunnel is dropped a send is never suspended.
C12_SendOutcomes ==
    /\ [][\A c \in DOMAIN connectors :
              /\ sent'[c] # sent[c] =>
                    /\ RecvTunnelAlive(c)
                    /\ Len(to_med[c]) < Capacity
                    /\ to_med'[c] = Append(to_med[c],
                            MessagePoint(Last(sent'[c]).dest,
                                Message(connectors[c].source, Last(sent'[c]).message)))
                    /\ conn_last'[c] = Outcome("Ok")
              /\ (conn_last'[c].type = "ChannelClosed" /\ conn_last'[c] # conn_last[c]) =>
                    /\ ~RecvTunnelAlive(c)
                    /\ conn_last'[c].from = connectors[c].source
                    /\ to_med'[c] = to_med[c]
                    /\ sent'[c] = sent[c]]_vars
    /\ [](\A r \in DOMAIN routines : \A dest \in Ids :
              (Runs(r, "Client") /\ Len(sent[routines[r].con]) < MaxSends) =>
                  LET c == routines[r].con IN
                  /\ (RecvTunnelAlive(c) /\ Len(to_med[c]) >= Capacity)
                        => ~ENABLED ClientSend(r, dest)
                  /\ ~RecvTunnelAlive(c) => ENABLED ClientSend(r, dest))

\* a Connector whose send was accepted once has then had a send fail with
\* ChannelClosed after its forwarder ended, while another Connector's
\* routine is suspended in send on its full channel
C12_Witness ==
    \E c, d \in DOMAIN connectors :
        /\ c # d
        /\ sent[c] # <<>>
        /\ conn_last[c].type = "ChannelClosed"
        /\ fwd_pc[c] = "done"
        /\ RecvTunnelAlive(d) /\ Len(to_med[d]) = Capacity
        /\ \E r \in DOMAIN routines : routines[r].con = d /\ task[r] = "running"

\* ------------------------------------------------------------------ C13
\* C13: a recv or try_recv that returns a message returns the payload at the
\* head of the inbound channel, whether or not the senders still exist; recv
\* returns end-of-stream, and try_recv Disconnected, only when the channel is
\* empty and the SendTunnel registry is dropped; try_recv returns Empty only
\* when the channel is empty and the registry exists; try_recv is never
\* suspended, recv is suspended exactly while the channel is empty and the
\* registry exists.
C13_ReceiveOutcomes ==
    /\ [][\A c \in DOMAIN connectors :
              /\ recvd'[c] # recvd[c] =>
                    /\ from_med[c] # <<>>
                    /\ recvd'[c] = Append(recvd[c], Head(from_med[c]).payload)
                    /\ from_med'[c] = Tail(from_med[c])
              /\ conn_last'[c] # conn_last[c] =>
                    /\ conn_last'[c].type \in {"EndOfStream", "Disconnected"} =>
                          from_med[c] = <<>> /\ ~SendersAlive /\ recvd'[c] = recvd[c]
                    /\ conn_last'[c].type = "Empty" =>
                          from_med[c] = <<>> /\ SendersAlive /\ recvd'[c] = recvd[c]]_vars
    /\ [](\A r \in DOMAIN routines : Runs(r, "Client") =>
              LET c == routines[r].con IN
              /\ ENABLED ClientTryRecv(r)
              /\ ENABLED ClientRecv(r) <=> (from_med[c] # <<>> \/ ~SendersAlive))

\* with the registry dropped, one Connector that received a message has been
\* told Disconnected by try_recv and another has been told end-of-stream by
\* recv, both routines still running
C13_Witness ==
    /\ ~SendersAlive
    /\ \E c, d \in DOMAIN connectors :
        /\ c # d
        /\ conn_last[c].type = "Disconnected" /\ recvd[c] # <<>>
        /\ conn_last[d].type = "EndOfStream"
        /\ \A r \in DOMAIN routines : routines[r].kind = "Client" => task[r] = "running"

\* ------------------------------------------------------------------ C14
\* C14: until Manager.run is called every registered routine is idle: it has
\* no task, has taken no step and has no result, and adding a routine
\* changes no other routine; and in every state in which join_routines
\* awaits or has awaited a handle, no routine is idle: each registered
\* routine was spawned as a task of its own, and before the first join every
\* one of them has a JoinHandle in running_routines.
C14_LaunchProtocol ==
    /\ [](mgr_pc = "build" =>
              /\ running_routines = <<>> /\ joined = <<>>
              /\ idle_routines = [i \in 1..Len(routines) |-> i]
              /\ \A r \in DOMAIN routines :
                     task[r] = "idle" /\ effects[r] = 0 /\ task_err[r] = NoError)
    /\ [][Len(routines') # Len(routines) =>
              /\ Len(routines') = Len(routines) + 1
              /\ task' = Append(task, "idle")
              /\ effects' = Append(effects, 0)
              /\ mgr_pc' = "build"]_vars
    /\ [](mgr_pc \in {"join", "done"} =>
              /\ idle_routines = <<>>
              /\ \A r \in DOMAIN routines : task[r] # "idle")
    /\ []((mgr_pc = "join" /\ joined = <<>>) =>
              /\ Len(running_routines) = Len(routines)
              /\ Range(running_routines) = DOMAIN routines)

\* the first join is about to be awaited: three routines run as tasks, one
\* of them has taken a step and another has already returned
C14_Witness ==
    /\ mgr_pc = "join" /\ joined = <<>>
    /\ Len(routines) = 3
    /\ \E r \in DOMAIN routines : task[r] = "running" /\ effects[r] > 0
    /\ \E r \in DOMAIN routines : task[r] = "Ok"

\* ------------------------------------------------------------------ C15
\* the i-th message Connector c had accepted is in the sequence q of
\* MessagePoints
QueuedIn(q, c, i) ==
    \E k \in DOMAIN q :
        /\ q[k].payload = Message(connectors[c].source, sent[c][i].message)
        /\ q[k].destination = sent[c][i].dest

\* where an accepted message can be: queued towards the Mediator, held by
\* the forwarder (in delivery, or the message its redirect failed on), queued
\* for or received by a Connector of its destination, or gone with the
\* Connector of its destination when that was dropped
Accounted(c, i) ==
    \/ QueuedIn(to_med[c], c, i)
    \/ /\ fwd_pc[c] \in {"lock", "send", "done"}
       /\ QueuedIn(<<fwd_msg[c]>>, c, i)
    \/ \E d \in DOMAIN connectors :
          /\ connectors[d].source = sent[c][i].dest
          /\ \/ QueuedIn(from_med[d], c, i)
             \/ Message(connectors[c].source, sent[c][i].message) \in Range(recvd[d])
             \/ connectors[d].state = "dropped"

\* C15 (as claimed): every message a send has accepted is accounted for in
\* every reachable state; in particular the messages queued behind a message
\* whose redirect failed are still there when that forwarder has ended.
C15_NoSilentDrop ==
    \A c \in DOMAIN connectors : \A i \in DOMAIN sent[c] : Accounted(c, i)

\* ------------------------------------------------------------------ C16
\* Mediator::run is in its join loop
MediatorJoining ==
    /\ med_pc = "run" /\ receivers = <<>>
    /\ MedRoutine # 0 /\ task[MedRoutine] = "running"

MediatorFailed == MedRoutine # 0 /\ task[MedRoutine] = "Err"

\* C16 (as claimed): Mediator.run returns as soon as some forwarder has
\* failed: while it is in its join loop and a forwarder has ended with a
\* failure, it is not suspended; and the failure it has returned is the
\* failure of a forwarder.
C16_FirstFailureReported ==
    /\ (MediatorJoining /\ \E f \in DOMAIN fwd_pc : fwd_pc[f] = "done")
          => ENABLED mediator_join
    /\ MediatorFailed =>
          \E f \in DOMAIN fwd_pc : fwd_pc[f] = "done" /\ task_err[MedRoutine] = fwd_result[f]

\* C16 (amended): Mediator.run awaits the forwarders in connect order: the
\* failure it returns is that of the forwarder h of the earliest connect call
\* that ended with a failure, every forwarder connected before h having
\* ended without one, and while the forwarder at the head of its join loop
\* is running it stays suspended, whatever the later forwarders have done.
C16_ConnectOrderFailure ==
    /\ MediatorFailed =>
          \E h \in DOMAIN fwd_pc :
              /\ fwd_pc[h] = "done"
              /\ task_err[MedRoutine] = fwd_result[h]
              /\ \A g \in 1..(h - 1) : fwd_pc[g] = "done" /\ fwd_result[g] = NoError
    /\ (MediatorJoining /\ handlers # <<>>) =>
          /\ \A i \in DOMAIN handlers : handlers[i] = Len(fwd_pc) - Len(handlers) + i
          /\ ENABLED mediator_join <=> fwd_pc[Head(handlers)] = "done"

\* the Mediator has returned the failure of the first-connected forwarder
\* although the second-connected forwarder has failed too, with another
\* failure
C16_Witness ==
    /\ MediatorFailed
    /\ Len(fwd_pc) = 2
    /\ task_err[MedRoutine] = fwd_result[1]
    /\ fwd_pc[2] = "done"
    /\ fwd_result[2] # fwd_result[1]

\* ------------------------------------------------------------------ C17
\* forwarder f has ended on the closure of its inbound channel
EndedOnClosure(f) ==
    /\ fwd_pc[f] = "done"
    /\ fwd_result[f] = TargetUnreachable(fwd_source[f])

\* C17 (as claimed): a forwarder that has ended on closure has left no
\* message in its channel, and every Connector of its identity has been
\* dropped.
C17_ShutdownAllConnectorsDropped ==
    \A f \in DOMAIN fwd_pc : EndedOnClosure(f) =>
        /\ to_med[f] = <<>>
        /\ \A d \in DOMAIN connectors :
               connectors[d].source = fwd_source[f] => connectors[d].state = "dropped"

\* C17 (amended): a forwarder ends from its receive only in a step in which
\* its channel is empty and the Connector of its own connect call is dropped,
\* and it then reports TargetUnreachable{target: its identity}; a queued
\* message is always taken first, also after the drop, and while its own
\* Connector is alive and the channel is empty it stays suspended.
C17_ShutdownOwnConnector ==
    /\ [][\A f \in DOMAIN fwd_pc :
              (fwd_pc[f] = "recv" /\ fwd_pc'[f] = "done") =>
                  /\ to_med[f] = <<>>
                  /\ connectors[f].state = "dropped"
                  /\ fwd_result'[f] = TargetUnreachable(connectors[f].source)]_vars
    /\ [](\A f \in DOMAIN fwd_pc : fwd_pc[f] = "recv" =>
              /\ to_med[f] # <<>> => ENABLED handle_messages(f)
              /\ (to_med[f] = <<>> /\ connectors[f].state = "live")
                    => ~ENABLED handle_messages(f))
    /\ [](\A f \in DOMAIN fwd_pc : EndedOnClosure(f) =>
              to_med[f] = <<>> /\ connectors[f].state = "dropped")

\* a forwarder of identity A has ended on closure with all the messages of
\* its Connector taken, while the other Connector of identity A is alive
C17_Witness ==
    \E f, d \in DOMAIN fwd_pc :
        /\ f # d
        /\ EndedOnClosure(f)
        /\ Len(sent[f]) = MaxSends
        /\ connectors[d].source = connectors[f].source
        /\ connectors[d].state = "live"

Delivering == {f \in DOMAIN fwd_pc : fwd_pc[f] = "send"}

\* forwarder f is suspended in its enqueue on a full channel
SuspendedOnFull(f) ==
    /\ fwd_pc[f] = "send"
    /\ ~DestinationDropped(f)
    /\ Len(from_med[senders[Find(fwd_msg[f].destination)].tx]) >= Capacity

\* C19: at most one forwarder is between lookup and completed enqueue, and
\* it is the holder of the registry lock; every enqueue on an inbound
\* channel is made by the lock holder in the step that releases the lock;
\* while a forwarder is suspended on a full destination channel no other
\* forwarder can look up or deliver.
C19_SerializedDelivery ==
    /\ [](Cardinality(Delivering) <= 1)
    /\ [](\A f \in DOMAIN fwd_pc : f \in Delivering <=> lock = f)
    /\ [][\A c \in DOMAIN from_med :
              (c \in DOMAIN from_med' /\ Len(from_med'[c]) > Len(from_med[c])) =>
                  /\ lock \in Delivering
                  /\ senders[Find(fwd_msg[lock].destination)].tx = c
                  /\ fwd_pc'[lock] = "recv"
                  /\ lock' = 0]_vars
    /\ [](\A f \in DOMAIN fwd_pc : SuspendedOnFull(f) =>
              /\ ~ENABLED redirect_send(f)
              /\ \A g \in DOMAIN fwd_pc \ {f} :
                     ~ENABLED redirect_lock(g) /\ ~ENABLED redirect_send(g))

\* a forwarder is suspended on a full channel with the lock held while
\* another forwarder waits for the lock with a message for a channel that
\* has room
C19_Witness ==
    \E f, g \in DOMAIN fwd_pc :
        /\ f # g
        /\ SuspendedOnFull(f)
        /\ fwd_pc[g] = "lock"
        /\ Registered(fwd_msg[g].destination)
        /\ Len(from_med[senders[Find(fwd_msg[g].destination)].tx]) < Capacity

\* ------------------------------------------------------------------ C20
\* an accepted message is still on its way: queued towards the Mediator or
\* held by a forwarder that has not ended
InTransit ==
    \E f \in DOMAIN fwd_pc : to_med[f] # <<>> \/ fwd_pc[f] \in {"lock", "send"}

\* C20 (as claimed): with three identities connected and every routine
\* sending finitely many messages and then receiving until end-of-stream, in
\* no reachable state is a message still on its way while no routine, no
\* forwarder and no other task can take a step.
C20_NoRoutingDeadlock ==
    (~ENABLED NextPeers) => ~InTransit

\* ------------------------------------------------------------------ C21
\* Connector d was returned by a later connect call of an identity that was
\* connected before
Duplicate(d) ==
    \E c \in 1..(d - 1) : connectors[c].source = connectors[d].source

\* some Connector of identity `source` had the send of `message` to `dest`
\* accepted
SentBy(source, dest, message) ==
    \E f \in DOMAIN connectors :
        /\ connectors[f].source = source
        /\ [dest |-> dest, message |-> message] \in Range(sent[f])

\* C21: the Connector of a second connect call of an identity never has a
\* message queued for it and never receives one; every message queued for or
\* received by a Connector is on the channel of the first connect call of
\* its destination, and carries as source the identity of a Connector that
\* sent it to that destination, whichever of the Connectors of that
\* identity it was sent through.
C21_FirstMatchWins ==
    /\ \A d \in DOMAIN connectors :
           Duplicate(d) => from_med[d] = <<>> /\ recvd[d] = <<>>
    /\ \A c \in DOMAIN connectors :
           /\ \A k \in DOMAIN from_med[c] :
                  /\ from_med[c][k].destination = connectors[c].source
                  /\ ~Duplicate(c)
                  /\ SentBy(from_med[c][k].payload.source, connectors[c].source,
                            from_med[c][k].payload.message)
           /\ \A k \in DOMAIN recvd[c] :
                  SentBy(recvd[c][k].source, connectors[c].source, recvd[c][k].message)

\* connect(A) was called twice: the first Connector has received, with
\* source A, more messages than it sent itself, so some came through the
\* second Connector, which has received nothing
C21_Witness ==
    /\ Len(connectors) = 2
    /\ Duplicate(2)
    /\ sent[2] # <<>>
    /\ Len(recvd[1]) > Len(sent[1])
    /\ \A k \in DOMAIN recvd[1] : recvd[1][k].source = connectors[2].source
    /\ recvd[2] = <<>>

\* ------------------------------------------------------------------ C22
\* Mediator::run has not moved any RecvTunnel into a forwarder yet
BeforeRun == \A f \in DOMAIN fwd_pc : fwd_pc[f] = "none"

\* C22: every step that changes the SendTunnel registry is a connect call:
\* it appends one SendTunnel and one RecvTunnel tagged with the identity
\* given, for the channels of the Connector it returns, and removes
\* nothing; so the registry never shrinks and no forwarder step changes it;
\* before run the registry and the RecvTunnels have equal length and the
\* same identity and channel at each index, and the registry always holds
\* one SendTunnel per connect call, in the order of the calls.
C22_RegistryShape ==
    /\ [][senders' # senders =>
              \E source \in Ids :
                  LET c == Len(connectors) + 1 IN
                  /\ senders' = Append(senders, [destination |-> source, tx |-> c])
                  /\ receivers' = Append(receivers, [source |-> source, rx |-> c])
                  /\ connectors' = Append(connectors, [source |-> source, state |-> "live"])
                  /\ fwd_pc' = Append(fwd_pc, "none")]_vars
    /\ [][IsPrefix(senders, senders')]_vars
    /\ [](BeforeRun =>
              /\ Len(senders) = Len(receivers)
              /\ \A i \in DOMAIN senders :
                     /\ senders[i].destination = receivers[i].source
                     /\ senders[i].tx = receivers[i].rx)
    /\ [](/\ Len(senders) = Len(connectors)
          /\ \A i \in DOMAIN senders :
                 senders[i] = [destination |-> connectors[i].source, tx |-> i])

\* after run: both RecvTunnels were moved into forwarders, one redirect has
\* failed on the dropped Connector of a registered identity, and the
\* registry still holds both SendTunnels
C22_Witness ==
    /\ Len(senders) = 2
    /\ receivers = <<>>
    /\ \E f \in DOMAIN fwd_pc :
           /\ fwd_result[f].type = "ChannelClosed"
           /\ Registered(fwd_result[f].to)
    /\ \E c \in DOMAIN connectors : connectors[c].state = "dropped"

\* ------------------------------------------------------------------ C23
\* the Connector of identity `source`, when there is exactly one
SenderOf(source) ==
    CHOOSE f \in DOMAIN connectors : connectors[f].source = source

\* C23: with distinct identities connected, every message queued for the
\* Connector of X has destination X; every Message queued for or returned to
\* it has as source the identity of a Connector and as payload a payload
\* that Connector passed to send with destination X; and the envelope of
\* every message on its way carries the identity of the Connector that sent
\* it, which is the tag of the RecvTunnel its forwarder holds.
C23_FaithfulRoundTrip ==
    AllUnique =>
        /\ \A c \in DOMAIN connectors :
               /\ \A k \in DOMAIN from_med[c] :
                      /\ from_med[c][k].destination = connectors[c].source
                      /\ from_med[c][k].payload.source \in
                             {connectors[f].source : f \in DOMAIN connectors}
                      /\ [dest |-> connectors[c].source,
                          message |-> from_med[c][k].payload.message]
                             \in Range(sent[SenderOf(from_med[c][k].payload.source)])
               /\ \A k \in DOMAIN recvd[c] :
                      /\ recvd[c][k].source \in
                             {connectors[f].source : f \in DOMAIN connectors}
                      /\ [dest |-> connectors[c].source, message |-> recvd[c][k].message]
                             \in Range(sent[SenderOf(recvd[c][k].source)])
        /\ \A f \in DOMAIN fwd_pc :
               /\ fwd_source[f] \in {NoId, connectors[f].source}
               /\ \A k \in DOMAIN to_med[f] :
                      to_med[f][k].payload.source = connectors[f].source
               /\ fwd_pc[f] \in {"lock", "send"} =>
                      /\ fwd_msg[f].payload.source = fwd_source[f]
                      /\ [dest |-> fwd_msg[f].destination,
                          message |-> fwd_msg[f].payload.message] \in Range(sent[f])

\* two identities: each Connector has received a message with the other's
\* identity as source, and one of them also a message it sent to itself
C23_Witness ==
    /\ AllUnique
    /\ Len(connectors) = 2
    /\ \E k \in DOMAIN recvd[1] : recvd[1][k].source = connectors[2].source
    /\ \E k \in DOMAIN recvd[2] : recvd[2][k].source = connectors[1].source
    /\ \E c \in DOMAIN connectors :
           \E k \in DOMAIN recvd[c] : recvd[c][k].source = connectors[c].source
====
